---- MODULE Spec2Model ----
(***************************************************************************)
(* Price ingestion and valuation pipeline of server.py.                    *)
(*                                                                         *)
(* Money and JSON numbers are integers counted in thousandths (1.5 is      *)
(* 1500); calendar dates are the integers 1..MaxDate.  A JSON value is a   *)
(* pair <<tag, payload>>; a JSON object is a function from its keys.       *)
(* The prices_daily table is a bag of rows, so that a second row for the   *)
(* same (id_product, date) is representable.                               *)
(*                                                                         *)
(* DATABASE_URL and CARDMARKET_URL are taken as set.  Of a card only its   *)
(* id and id_product are kept, of a holding its card and quantity.  The    *)
(* variable last records the latest ingestion request with its answer and  *)
(* the table as it was before; pv is the latest valuation answer; run and  *)
(* log belong to the overlapping sync calls, log being the order in which  *)
(* their row upserts were executed.                                        *)
(***************************************************************************)
EXTENDS Bags, FiniteSets, Integers, Sequences, TLC

VARIABLES prices_daily, cards, holdings, card_seq, today, last, pv, run, log

vars == <<prices_daily, cards, holdings, card_seq, today, last, pv, run, log>>

(* ------------------------------ bounds --------------------------------- *)

MaxDate == 2

MaxLen == 2

MaxHoldings == 2

(* --------------------------- JSON values ------------------------------- *)

None == <<"null", 0>>

Num(m) == <<"num", m>>

Str(s) == <<"str", s>>

NULL == -1

Get(row, k) == IF k \in DOMAIN row THEN row[k] ELSE None

IntLiteral(s) ==
    CASE s = "1" -> <<"ok", 1>>
      [] s = "2" -> <<"ok", 2>>
      [] s = "7" -> <<"ok", 7>>
      [] OTHER   -> <<"err", 0>>

PyInt(v) ==
    CASE v[1] = "num" -> <<"ok", v[2] \div 1000>>
      [] v[1] = "str" -> IntLiteral(v[2])
      [] OTHER        -> <<"err", 0>>

ToNumeric(v) ==
    CASE v[1] = "null" -> <<"ok", NULL>>
      [] v[1] = "num"  -> <<"ok", v[2]>>
      [] v[1] = "str"  -> IF IntLiteral(v[2])[1] = "ok"
                          THEN <<"ok", 1000 * IntLiteral(v[2])[2]>>
                          ELSE <<"err", 0>>
      [] OTHER         -> <<"err", 0>>

(* ------------------------- prices_daily table -------------------------- *)

PriceRow(idp, d, avg, low, trend, data) ==
    [id_product |-> idp, date |-> d, avg_price |-> avg,
     low_price |-> low, trend_price |-> trend, data |-> data]

KeyOf(r) == <<r.id_product, r.date>>

RowsAt(t, k) == {r \in BagToSet(t) : KeyOf(r) = k}

RECURSIVE Copies(_, _)
Copies(t, S) ==
    IF S = {} THEN 0
    ELSE LET r == CHOOSE r \in S : TRUE IN t[r] + Copies(t, S \ {r})

Conflicting(t, new) ==
    {r \in BagToSet(t) : r.id_product = new.id_product /\ r.date = new.date}

DoUpdate_accumulate(r, new) ==
    [r EXCEPT !.avg_price = IF @ = NULL \/ new.avg_price = NULL
                            THEN new.avg_price ELSE @ + new.avg_price,
              !.low_price = new.low_price,
              !.trend_price = new.trend_price, !.data = new.data]

DoUpdate_avgOnly(r, new) == [r EXCEPT !.avg_price = new.avg_price]

DoUpdate(r, new) ==
    [r EXCEPT !.avg_price = new.avg_price, !.low_price = new.low_price,
              !.trend_price = new.trend_price, !.data = new.data]

ExecUpsert_insertOnly(t, new) == t (+) SetToBag({new})

ExecUpsert(t, new) ==
    LET c    == Conflicting(t, new)
        kept == BagToSet(t) \ c
        upd  == {DoUpdate(r, new) : r \in c}
    IN  IF c = {} THEN t (+) SetToBag({new})
        ELSE [x \in kept \cup upd |->
                (IF x \in kept THEN t[x] ELSE 0)
                + Copies(t, {r \in c : DoUpdate(r, new) = x})]

ExitConn(committed, local, raised) == IF raised THEN committed ELSE local

(* ----------------------------- feed inputs ------------------------------ *)

eA == [idProduct |-> Num(1000), avgPrice |-> Num(1500), trendPrice |-> Num(2000)]

eB == [idProduct |-> Str("1"), lowPrice |-> Num(2000)]

eC == [productId |-> Str("7"), avg |-> Num(3000)]

eD == [idProduct |-> Num(2000), avgPrice |-> Str("abc")]

eF == [idProduct |-> Str("2"), avgPrice |-> Num(3005), lowPrice |-> Num(2500)]

eZ == [idProduct |-> Num(1000), avgPrice |-> Num(1500), trendPrice |-> Num(0)]

Entries == {eA, eB, eC, eD}

ListsOf(E, n) == UNION {[1..k -> E] : k \in 0..n}

Node(t, items, members) == [t |-> t, items |-> items, members |-> members]

ListNode(l) == Node("list", l, <<>>)

ScalarNode == Node("scalar", <<>>, <<>>)

Wrapped(k, v) == Node("dict", <<>>, [x \in {k} |-> v])

Wrapped2(k1, v1, k2, v2) ==
    Node("dict", <<>>, [x \in {k1, k2} |-> IF x = k1 THEN v1 ELSE v2])

Http(status, indicated, gzipped, text, doc) ==
    [net |-> "ok", status |-> status, indicated |-> indicated,
     gzipped |-> gzipped, text |-> text, doc |-> doc]

NoResp == [net |-> "none", status |-> 0, indicated |-> FALSE,
           gzipped |-> FALSE, text |-> "none", doc |-> ScalarNode]

TransportError == [NoResp EXCEPT !.net = "error"]

Json200(doc) == Http(200, FALSE, FALSE, "json", doc)

(* ------------------------------ _run_sync ------------------------------ *)

Fetch_ignoreStatus(resp) == IF resp.net = "error" THEN "raise" ELSE "ok"

Fetch(resp) ==
    IF resp.net = "error" \/ resp.status >= 400 THEN "raise" ELSE "ok"

Decode(resp) ==
    IF resp.indicated # resp.gzipped THEN "raise"
    ELSE IF resp.text # "json" THEN "raise" ELSE "ok"

Unwrap(data) ==
    IF data.t = "dict"
    THEN IF "products" \in DOMAIN data.members THEN data.members["products"]
         ELSE IF "data" \in DOMAIN data.members THEN data.members["data"]
         ELSE data
    ELSE data

IsList(data) == data.t = "list"

BindParams(idp, d, row) ==
    LET avg   == ToNumeric(Get(row, "avgPrice"))
        low   == ToNumeric(Get(row, "lowPrice"))
        trend == ToNumeric(Get(row, "trendPrice"))
    IN  IF avg[1] = "err" \/ low[1] = "err" \/ trend[1] = "err"
        THEN [outcome |-> "raise", rec |-> PriceRow(idp, d, NULL, NULL, NULL, row)]
        ELSE [outcome |-> "ok", rec |-> PriceRow(idp, d, avg[2], low[2], trend[2], row)]

SyncRow_abortOnBadId(row, d) ==
    LET idp == PyInt(Get(row, "idProduct"))
    IN  IF idp[1] = "err"
        THEN [outcome |-> "raise", rec |-> PriceRow(0, d, NULL, NULL, NULL, row)]
        ELSE BindParams(idp[2], d, row)

SyncRow(row, d) ==
    LET idp == PyInt(Get(row, "idProduct"))
    IN  IF idp[1] = "err"
        THEN [outcome |-> "skip", rec |-> PriceRow(0, d, NULL, NULL, NULL, row)]
        ELSE BindParams(idp[2], d, row)

RECURSIVE SyncLoop(_, _, _, _)
SyncLoop(t, rows, d, inserted) ==
    IF rows = <<>> THEN [status |-> 200, table |-> t, inserted |-> inserted]
    ELSE LET r == SyncRow(Head(rows), d)
         IN  CASE r.outcome = "skip"  -> SyncLoop(t, Tail(rows), d, inserted)
               [] r.outcome = "raise" -> [status |-> 500, table |-> t, inserted |-> inserted]
               [] OTHER -> SyncLoop(ExecUpsert(t, r.rec), Tail(rows), d, inserted + 1)

Failed(code, t) == [status |-> code, table |-> t, inserted |-> 0]

BatchStatus(resp) ==
    IF Fetch(resp) = "raise" THEN 502
    ELSE IF Decode(resp) = "raise" THEN 502
    ELSE IF ~IsList(Unwrap(resp.doc)) THEN 400
    ELSE 200

SyncRows(resp) ==
    IF BatchStatus(resp) = 200 THEN Unwrap(resp.doc).items ELSE <<>>

RunSync(t, resp, d) ==
    IF BatchStatus(resp) # 200 THEN Failed(BatchStatus(resp), t)
    ELSE SyncLoop(t, SyncRows(resp), d, 0)

(* ---------------------------- import_prices ---------------------------- *)

NoWhen == <<"none", 0>>

BadWhen == <<"bad", 0>>

WhenDate(d) == <<"date", d>>

ParseWhen(when, now) ==
    CASE when[1] = "none" -> <<"ok", now>>
      [] when[1] = "date" -> <<"ok", when[2]>>
      [] OTHER            -> <<"err", 0>>

ImportRow(row, d) ==
    LET idp == PyInt(Get(row, "idProduct"))
    IN  IF idp[1] = "err"
        THEN [outcome |-> "raise", rec |-> PriceRow(0, d, NULL, NULL, NULL, row)]
        ELSE BindParams(idp[2], d, row)

RECURSIVE ImportLoop(_, _, _, _)
ImportLoop(t, rows, d, inserted) ==
    IF rows = <<>> THEN [status |-> 200, table |-> t, inserted |-> inserted]
    ELSE LET r == ImportRow(Head(rows), d)
         IN  IF r.outcome = "raise"
             THEN [status |-> 500, table |-> t, inserted |-> inserted]
             ELSE ImportLoop(ExecUpsert(t, r.rec), Tail(rows), d, inserted + 1)

RunImport(t, rows, when, now) ==
    IF ParseWhen(when, now)[1] = "err" THEN Failed(400, t)
    ELSE ImportLoop(t, rows, ParseWhen(when, now)[2], 0)

(* -------------------------- cards and holdings -------------------------- *)

Card(id, idp) == [id |-> id, id_product |-> idp]

Holding(id, cid, q) == [id |-> id, card_id |-> cid, quantity |-> q]

NewCards == {<<1, 3>>, <<2, 1>>, <<NULL, 1>>}

CardIdFor(cs, seq, idp) ==
    IF idp # NULL /\ \E c \in cs : c.id_product = idp
    THEN (CHOOSE c \in cs : c.id_product = idp).id
    ELSE seq + 1

(* --------------------------- portfolio_value --------------------------- *)

Coalesce(xs) ==
    IF \E i \in 1..Len(xs) : xs[i] # NULL
    THEN xs[CHOOSE i \in 1..Len(xs) :
                xs[i] # NULL /\ \A j \in 1..(i - 1) : xs[j] = NULL]
    ELSE NULL

Latest(t, idp) ==
    LET ds == {r.date : r \in {x \in BagToSet(t) : x.id_product = idp}}
    IN  IF ds = {} THEN NULL ELSE CHOOSE d \in ds : \A e \in ds : e <= d

Joined(t, c) ==
    {p \in BagToSet(t) :
        /\ c.id_product # NULL
        /\ p.id_product = c.id_product
        /\ Latest(t, c.id_product) # NULL
        /\ p.date = Latest(t, c.id_product)}

RowPrice_avgFirst(p) == Coalesce(<<p.avg_price, p.trend_price, p.low_price, 0>>)

RowPrice(p) == Coalesce(<<p.trend_price, p.avg_price, p.low_price, 0>>)

RECURSIVE SumPrices(_, _, _)
SumPrices(t, q, ps) ==
    IF ps = {} THEN 0
    ELSE LET p == CHOOSE p \in ps : TRUE
         IN  t[p] * q * RowPrice(p) + SumPrices(t, q, ps \ {p})

HoldingValue(t, cs, h) ==
    LET c == CHOOSE c \in cs : c.id = h.card_id
    IN  IF Joined(t, c) = {} THEN h.quantity * Coalesce(<<NULL, NULL, NULL, 0>>)
        ELSE SumPrices(t, h.quantity, Joined(t, c))

RECURSIVE SumHoldings(_, _, _)
SumHoldings(t, cs, hs) ==
    IF hs = {} THEN NULL
    ELSE LET h    == CHOOSE h \in hs : TRUE
             rest == SumHoldings(t, cs, hs \ {h})
         IN  HoldingValue(t, cs, h) + (IF rest = NULL THEN 0 ELSE rest)

PortfolioSum(t, cs, hs) == Coalesce(<<SumHoldings(t, cs, hs), 0>>)

Round2(m) ==
    IF m % 10 = 5 THEN {m - 5, m + 5}
    ELSE IF m % 10 < 5 THEN {m - (m % 10)} ELSE {m + 10 - (m % 10)}

(* ------------------------------- requests ------------------------------ *)

SYNC_TOKEN == "secret"

WrapperKeys == {"priceGuides", "products", "data", "items", "rows"}

FeedLists == ListsOf(Entries, MaxLen)

WrapLists == {<<eA>>, <<eC>>}

WrappedDocs ==
    {Wrapped(k, ListNode(l)) : k \in WrapperKeys \cup {"foo"}, l \in WrapLists}
    \cup {Wrapped(k, ScalarNode) : k \in {"products", "data"}}
    \cup {Wrapped2("products", ScalarNode, "data", ListNode(<<eA>>)),
          Wrapped2("products", ListNode(<<eA>>), "data", ListNode(<<eB>>))}

Responses ==
    {TransportError,
     Http(404, FALSE, FALSE, "json", ListNode(<<eA>>)),
     Http(300, FALSE, FALSE, "json", ListNode(<<eA>>)),
     Http(200, FALSE, FALSE, "garbage", ScalarNode),
     Http(200, TRUE, FALSE, "json", ListNode(<<eA>>)),
     Http(200, FALSE, TRUE, "json", ListNode(<<eA>>)),
     Http(200, TRUE, TRUE, "json", ListNode(<<eA>>))}
    \cup {Json200(d) : d \in {ListNode(l) : l \in FeedLists}
                              \cup WrappedDocs \cup {ScalarNode}}

ImportRequests ==
    (FeedLists \X {NoWhen})
    \cup (ListsOf(Entries, 1) \X {WhenDate(d) : d \in 1..MaxDate})
    \cup {<<l, BadWhen>> : l \in {<<eA>>}}

(* -------------------------------- state -------------------------------- *)

NoLast ==
    [op |-> "none", status |-> 0, inserted |-> 0, date |-> 0, rows |-> <<>>,
     resp |-> NoResp, when |-> NoWhen, pre |-> EmptyBag, repeat |-> FALSE]

NoPv == [valid |-> FALSE, total |-> 0, total_eur |-> 0]

Repeats(d, rows, status) ==
    /\ last.op # "none"
    /\ last.status = 200
    /\ status = 200
    /\ last.date = d
    /\ last.rows = rows

Workers == {"w1", "w2"}

IdleRun ==
    [pc |-> "idle", rows |-> <<>>, i |-> 1, d |-> 0, inserted |-> 0,
     status |-> 0, w |-> <<>>]

Init ==
    /\ prices_daily = EmptyBag
    /\ cards = {}
    /\ holdings = {}
    /\ card_seq = 0
    /\ today = 1
    /\ last = NoLast
    /\ pv = NoPv
    /\ run = [p \in Workers |-> IdleRun]
    /\ log = <<>>

(* ------------------------------- actions ------------------------------- *)

Tick ==
    /\ today < MaxDate
    /\ today' = today + 1
    /\ pv' = NoPv
    /\ UNCHANGED <<prices_daily, cards, holdings, card_seq, last, run, log>>

add_card(idp, q) ==
    /\ Cardinality(holdings) < MaxHoldings
    /\ cards' = IF idp # NULL /\ \E c \in cards : c.id_product = idp
                THEN cards
                ELSE cards \cup {Card(card_seq + 1, idp)}
    /\ card_seq' = card_seq + 1
    /\ holdings' = holdings \cup
          {Holding(Cardinality(holdings) + 1, CardIdFor(cards, card_seq, idp), q)}
    /\ pv' = NoPv
    /\ UNCHANGED <<prices_daily, today, last, run, log>>

portfolio_value ==
    /\ \E total \in {PortfolioSum(prices_daily, cards, holdings)} :
          \E e \in Round2(total) :
             pv' = [valid |-> TRUE, total |-> total, total_eur |-> e]
    /\ UNCHANGED <<prices_daily, cards, holdings, card_seq, today, last, run, log>>

Unauthorized(op) ==
    /\ last' = [NoLast EXCEPT !.op = op, !.status = 401, !.pre = prices_daily]
    /\ pv' = NoPv
    /\ UNCHANGED <<prices_daily, cards, holdings, card_seq, today, run, log>>

sync(token, resp) ==
    IF token # SYNC_TOKEN THEN Unauthorized("sync")
    ELSE \E res \in {RunSync(prices_daily, resp, today)} :
             /\ prices_daily' = ExitConn(prices_daily, res.table, res.status # 200)
             /\ last' = [op |-> "sync", status |-> res.status,
                         inserted |-> res.inserted, date |-> today,
                         rows |-> SyncRows(resp), resp |-> resp, when |-> NoWhen,
                         pre |-> prices_daily,
                         repeat |-> Repeats(today, SyncRows(resp), res.status)]
             /\ pv' = NoPv
             /\ UNCHANGED <<cards, holdings, card_seq, today, run, log>>

import_prices(token, rows, when) ==
    IF token # SYNC_TOKEN THEN Unauthorized("import")
    ELSE \E res \in {RunImport(prices_daily, rows, when, today)},
            d \in {ParseWhen(when, today)[2]} :
             /\ prices_daily' = ExitConn(prices_daily, res.table, res.status # 200)
             /\ last' = [op |-> "import", status |-> res.status,
                         inserted |-> res.inserted, date |-> d,
                         rows |-> rows, resp |-> NoResp, when |-> when,
                         pre |-> prices_daily,
                         repeat |-> Repeats(d, rows, res.status)]
             /\ pv' = NoPv
             /\ UNCHANGED <<cards, holdings, card_seq, today, run, log>>

Next ==
    \/ Tick
    \/ \E resp \in Responses : sync(SYNC_TOKEN, resp)
    \/ sync("wrong", NoResp)
    \/ \E rq \in ImportRequests : import_prices(SYNC_TOKEN, rq[1], rq[2])
    \/ import_prices("wrong", <<>>, NoWhen)

Spec == Init /\ [][Next]_vars

(* Valuation: the same handlers over a holdings book, with snapshots of    *)
(* one entry per request.                                                  *)

ValLists == {<<eZ>>, <<eB>>, <<eF>>}

ValNext ==
    \/ Tick
    \/ \E c \in NewCards : add_card(c[1], c[2])
    \/ portfolio_value
    \/ \E l \in ValLists, w \in {NoWhen, WhenDate(MaxDate)} :
          import_prices(SYNC_TOKEN, l, w)

ValSpec == Init /\ [][ValNext]_vars

(* ---------------- overlapping sync_get / sync_post calls --------------- *)
(* Each worker serves one call of _run_sync, one statement at a time, all  *)
(* on the same day.  The                                                   *)
(* connection block is one transaction: a written key stays locked until   *)
(* the block exits, a statement on a key locked by another worker waits,   *)
(* and a cycle of waiting workers is broken by failing one of them.        *)

ConcLists == ListsOf({eA, eB, eC, eF}, MaxLen)

RECURSIVE ApplyWrites(_, _)
ApplyWrites(t, w) ==
    IF w = <<>> THEN t ELSE ApplyWrites(ExecUpsert(t, Head(w)), Tail(w))

Locked(q) ==
    IF run[q].pc = "loop" THEN {KeyOf(run[q].w[i]) : i \in 1..Len(run[q].w)}
    ELSE {}

AtRow(p) == run[p].pc = "loop" /\ run[p].i <= Len(run[p].rows)

NextRow(p) == SyncRow(run[p].rows[run[p].i], run[p].d)

Blockers(p) ==
    IF AtRow(p) /\ NextRow(p).outcome = "ok"
    THEN {q \in Workers \ {p} : KeyOf(NextRow(p).rec) \in Locked(q)}
    ELSE {}

RECURSIVE WaitsOn(_, _)
WaitsOn(S, n) ==
    IF n = 0 THEN S
    ELSE WaitsOn(S \cup UNION {Blockers(q) : q \in S}, n - 1)

Deadlocked(p) == p \in WaitsOn(Blockers(p), Cardinality(Workers))

Finish(p, status) ==
    run' = [run EXCEPT ![p].pc = "done", ![p].status = status, ![p].w = <<>>]

SyncBegin(p, token, resp) ==
    /\ run[p].pc = "idle"
    /\ IF token # SYNC_TOKEN THEN Finish(p, 401)
       ELSE IF BatchStatus(resp) # 200 THEN Finish(p, BatchStatus(resp))
       ELSE run' = [run EXCEPT ![p].pc = "loop", ![p].rows = SyncRows(resp),
                               ![p].d = today]
    /\ UNCHANGED <<prices_daily, cards, holdings, card_seq, today, last, pv, log>>

SyncStep(p) ==
    /\ AtRow(p)
    /\ Blockers(p) = {}
    /\ \E r \in {NextRow(p)} :
          CASE r.outcome = "skip" ->
                 /\ run' = [run EXCEPT ![p].i = @ + 1]
                 /\ UNCHANGED log
            [] r.outcome = "raise" ->
                 /\ Finish(p, 500)
                 /\ UNCHANGED log
            [] OTHER ->
                 /\ run' = [run EXCEPT ![p].i = @ + 1, ![p].inserted = @ + 1,
                                       ![p].w = Append(@, r.rec)]
                 /\ log' = Append(log, [by |-> p, rec |-> r.rec])
    /\ UNCHANGED <<prices_daily, cards, holdings, card_seq, today, last, pv>>

SyncAbort(p) ==
    /\ Deadlocked(p)
    /\ Finish(p, 500)
    /\ UNCHANGED <<prices_daily, cards, holdings, card_seq, today, last, pv, log>>

SyncCommit(p) ==
    /\ run[p].pc = "loop"
    /\ run[p].i > Len(run[p].rows)
    /\ prices_daily' = ExitConn(prices_daily, ApplyWrites(prices_daily, run[p].w), FALSE)
    /\ Finish(p, 200)
    /\ UNCHANGED <<cards, holdings, card_seq, today, last, pv, log>>

ConcNext ==
    \/ \E p \in Workers, l \in ConcLists :
          SyncBegin(p, SYNC_TOKEN, Json200(ListNode(l)))
    \/ \E p \in Workers : SyncBegin(p, SYNC_TOKEN, TransportError)
    \/ \E p \in Workers : SyncBegin(p, "wrong", NoResp)
    \/ \E p \in Workers : SyncStep(p)
    \/ \E p \in Workers : SyncAbort(p)
    \/ \E p \in Workers : SyncCommit(p)

ConcSpec == Init /\ [][ConcNext]_vars

(* ------------------------- properties: ingestion ----------------------- *)

Ingested == last.op \in {"sync", "import"} /\ last.status = 200

Writes(i) == ImportRow(last.rows[i], last.date)

WritesTo(k) ==
    {i \in 1..Len(last.rows) :
        Writes(i).outcome = "ok" /\ KeyOf(Writes(i).rec) = k}

LastWriteTo(k) == CHOOSE i \in WritesTo(k) : \A j \in WritesTo(k) : j <= i

OneRowPerKey(t) ==
    \A r \in BagToSet(t) : Copies(t, RowsAt(t, KeyOf(r))) = 1

\* C1: whatever sequence of feed syncs and manual imports ran, prices_daily
\* holds at most one row per (id_product, date); a run that writes an entry
\* for a key already present replaces that row's avg/low/trend/data with the
\* last entry written for the key, leaves every other row as it was, and
\* the key still has a single row.
C1_OneRowPerKey ==
    /\ OneRowPerKey(prices_daily)
    /\ Ingested =>
         \A r \in BagToSet(last.pre) :
            IF WritesTo(KeyOf(r)) = {}
            THEN RowsAt(prices_daily, KeyOf(r)) = {r}
            ELSE RowsAt(prices_daily, KeyOf(r))
                    = {Writes(LastWriteTo(KeyOf(r))).rec}

C1_Witness ==
    /\ Ingested
    /\ \E r \in BagToSet(last.pre) :
          /\ WritesTo(KeyOf(r)) # {}
          /\ Writes(LastWriteTo(KeyOf(r))).rec # r
          /\ RowsAt(prices_daily, KeyOf(r)) = {Writes(LastWriteTo(KeyOf(r))).rec}

\* C2: a successful ingestion that directly repeats the previous successful
\* one, with the same date and the same entry list, leaves prices_daily
\* exactly as the first run left it.
C2_Idempotent == last.repeat => prices_daily = last.pre

C2_Witness ==
    /\ last.repeat
    /\ last.inserted > 0
    /\ prices_daily = last.pre
    /\ prices_daily # EmptyBag

Resolvable(row) == PyInt(Get(row, "idProduct"))[1] = "ok"

ReachedLoop == last.op = "sync" /\ last.status \in {200, 500}

ResolvableOnly == SyncLoop(last.pre, SelectSeq(last.rows, Resolvable), last.date, 0)

\* C7: in a feed sync that reached the entry loop, entries whose idProduct
\* does not convert to an integer are skipped: the run ends as it would on
\* the list without them, stores exactly the rows that list would store,
\* and on success reports the number of entries that were not skipped.
C7_SkipUnresolvable ==
    ReachedLoop =>
        /\ last.status = ResolvableOnly.status
        /\ prices_daily
             = ExitConn(last.pre, ResolvableOnly.table, ResolvableOnly.status # 200)
        /\ last.status = 200 =>
             last.inserted = Len(SelectSeq(last.rows, Resolvable))

C7_Witness ==
    /\ ReachedLoop
    /\ last.status = 200
    /\ last.inserted = 1
    /\ Len(last.rows) = 2
    /\ \E i \in 1..2 : ~Resolvable(last.rows[i])
    /\ prices_daily # last.pre

FetchFailure(resp) == resp.net = "error" \/ resp.status \notin 200..299

ParseFailure(resp) == resp.text # "json" \/ resp.indicated # resp.gzipped

CandidateKeys == <<"priceGuides", "products", "data", "items", "rows">>

HoldsList(doc, k) == k \in DOMAIN doc.members /\ doc.members[k].t = "list"

SchemaFailure(resp) ==
    /\ resp.doc.t # "list"
    /\ \A i \in 1..Len(CandidateKeys) : ~HoldsList(resp.doc, CandidateKeys[i])

BatchFailure(resp) ==
    FetchFailure(resp) \/ ParseFailure(resp) \/ SchemaFailure(resp)

ErrorStatus(resp) == resp.net = "error" \/ resp.status \in 400..599

Parsed ==
    /\ last.op = "sync"
    /\ last.status # 401
    /\ ~FetchFailure(last.resp)
    /\ ~ParseFailure(last.resp)

FirstListKey(doc) ==
    CandidateKeys[CHOOSE i \in 1..Len(CandidateKeys) :
        /\ HoldsList(doc, CandidateKeys[i])
        /\ \A j \in 1..(i - 1) : ~HoldsList(doc, CandidateKeys[j])]

\* C5: when the parsed feed document is an object, the entry list is the
\* value of the first of priceGuides, products, data, items, rows that
\* holds a list, and the run goes on to ingest it; the run answers 400
\* only when no candidate key holds a list.
C5_FirstListWrapper ==
    (Parsed /\ last.resp.doc.t = "dict") =>
        IF SchemaFailure(last.resp) THEN last.status = 400
        ELSE /\ last.status # 400
             /\ last.rows = last.resp.doc.members[FirstListKey(last.resp.doc)].items

IdAliases == <<"idProduct", "productId">>

FirstPresent(row, names) ==
    IF \E i \in 1..Len(names) : names[i] \in DOMAIN row
    THEN row[names[CHOOSE i \in 1..Len(names) :
                /\ names[i] \in DOMAIN row
                /\ \A j \in 1..(i - 1) : names[j] \notin DOMAIN row]]
    ELSE None

AliasId(row) == PyInt(FirstPresent(row, IdAliases))

AliasRow(row, d) ==
    PriceRow(AliasId(row)[2], d,
             ToNumeric(FirstPresent(row, <<"avgPrice", "avg">>))[2],
             ToNumeric(FirstPresent(row, <<"lowPrice", "low">>))[2],
             ToNumeric(FirstPresent(row, <<"trendPrice", "trend">>))[2],
             row)

\* C6: a successful feed sync stores, for every entry whose identifier
\* resolves through the alias names (idProduct, then productId; integer
\* strings accepted), a row under that identifier whose avg/low/trend come
\* from the primary field or else its short alias, absent fields staying
\* null: the last entry {productId: "7", avg: 3.0} of a feed is stored as
\* (7, avg 3.0, low null, trend null).
C6_AliasFields ==
    (last.op = "sync" /\ last.status = 200) =>
        \A i \in 1..Len(last.rows) :
            (/\ AliasId(last.rows[i])[1] = "ok"
             /\ \A j \in (i + 1)..Len(last.rows) :
                   AliasId(last.rows[j]) # AliasId(last.rows[i]))
            => RowsAt(prices_daily, <<AliasId(last.rows[i])[2], last.date>>)
                  = {AliasRow(last.rows[i], last.date)}

\* C9: in the feed sync and in the manual import alike, a row that cannot
\* be written (malformed price, idProduct not an integer) does not stop the
\* batch: the run still succeeds and every writable row of the batch is
\* committed.
C9_RowFailureIsolated ==
    (last.op \in {"sync", "import"} /\ last.status \in {200, 500}) =>
        /\ last.status = 200
        /\ \A i \in 1..Len(last.rows) :
              (Writes(i).outcome = "ok"
               /\ i = LastWriteTo(KeyOf(Writes(i).rec)))
              => RowsAt(prices_daily, KeyOf(Writes(i).rec)) = {Writes(i).rec}

(* ------------------------- properties: valuation ----------------------- *)

CardOf(h) == CHOOSE c \in cards : c.id = h.card_id

RowsFor(h, T) == {r \in T : r.id_product = CardOf(h).id_product}

Newest(R) == {r \in R : \A x \in R : x.date <= r.date}

TrendAvgLow(r) ==
    IF r.trend_price # NULL THEN r.trend_price
    ELSE IF r.avg_price # NULL THEN r.avg_price
    ELSE IF r.low_price # NULL THEN r.low_price
    ELSE 0

Worth(h, T) ==
    IF Newest(RowsFor(h, T)) = {} THEN 0
    ELSE h.quantity * TrendAvgLow(CHOOSE r \in Newest(RowsFor(h, T)) : TRUE)

RECURSIVE Total(_, _)
Total(hs, T) ==
    IF hs = {} THEN 0
    ELSE LET h == CHOOSE h \in hs : TRUE IN Worth(h, T) + Total(hs \ {h}, T)

NotAfterToday == {r \in BagToSet(prices_daily) : r.date <= today}

\* C3: portfolio_value prices every holding with the row of its card's
\* id_product that has the greatest date not after today, rows dated after
\* today (written by an import with a later date override) being ignored;
\* a holding with no row dated today or earlier adds 0.
C3_LatestNotAfterToday == pv.valid => pv.total = Total(holdings, NotAfterToday)

\* C4: the total of portfolio_value is the sum over all holdings of
\* quantity times the price of the row selected for the holding, the price
\* being the first non-null of trend, avg, low in that order and 0 when all
\* three are null or no row is selected; quantity 3 over a row with only
\* low = 2.0 gives 6.00.
C4_TrendAvgLow == pv.valid => pv.total = Total(holdings, BagToSet(prices_daily))

C4_Witness ==
    /\ pv.valid
    /\ pv.total = 6000
    /\ \E h \in holdings :
          /\ h.quantity = 3
          /\ \E r \in Newest(RowsFor(h, BagToSet(prices_daily))) :
                /\ r.trend_price = NULL
                /\ r.avg_price = NULL
                /\ r.low_price = 2000
    /\ \E h \in holdings : Newest(RowsFor(h, BagToSet(prices_daily))) = {}

(* ------------------------ properties: concurrency ---------------------- *)

AllDone == \A p \in Workers : run[p].pc = "done"

Committed == {p \in Workers : run[p].status = 200}

Events(k) ==
    {i \in 1..Len(log) : log[i].by \in Committed /\ KeyOf(log[i].rec) = k}

\* C10: once every overlapping sync call has ended, however their row
\* upserts interleaved and whatever identifiers a feed repeated, each
\* (id_product, date) key holds a single row, that row is entirely the
\* entry written last for the key by a call that committed, and no row
\* exists for a key no committed call wrote.
C10_LastWriterWins ==
    AllDone =>
        /\ OneRowPerKey(prices_daily)
        /\ \A r \in BagToSet(prices_daily) : Events(KeyOf(r)) # {}
        /\ \A i \in 1..Len(log) :
              (/\ i \in Events(KeyOf(log[i].rec))
               /\ \A j \in Events(KeyOf(log[i].rec)) : j <= i)
              => RowsAt(prices_daily, KeyOf(log[i].rec)) = {log[i].rec}

C10_Witness ==
    /\ AllDone
    /\ Committed = Workers
    /\ \E i, j, k \in 1..Len(log) :
          /\ i < j
          /\ j < k
          /\ log[i].by = log[k].by
          /\ log[i].by # log[j].by
          /\ KeyOf(log[i].rec) = KeyOf(log[k].rec)
    /\ \E i, j \in 1..Len(log) :
          /\ i < j
          /\ log[i].by # log[j].by
          /\ KeyOf(log[i].rec) = KeyOf(log[j].rec)
          /\ log[i].rec # log[j].rec
          /\ RowsAt(prices_daily, KeyOf(log[j].rec)) = {log[j].rec}

====
